---- MODULE Spec2Model ----
(***************************************************************************)
(* Model of the Jira CLI store (src/src/db.rs, src/src/models.rs).         *)
(*                                                                         *)
(* The persisted file is the only state of the store: every JiraDatabase   *)
(* method reads the whole DBState from it, mutates the in-memory copy and  *)
(* writes the whole copy back.  One action models one method call, from    *)
(* its read to its return.  `last` records what the most recent call gave  *)
(* back (method, result kind, returned id, number of write_db calls);      *)
(* `returned` is the set of ids handed out by successful creates.          *)
(*                                                                         *)
(* The interactive session (src/src/main.rs, src/src/ui) is a second       *)
(* specification, SpecUI, over the same file: `pages` is the Navigator's   *)
(* page stack (top last) and `nav` records what the most recent turn of    *)
(* the main loop did.  Spec leaves both as they start.                     *)
(*                                                                         *)
(* The column helper (src/src/ui/pages/page_helpers.rs) is a pure function *)
(* of its arguments; a third specification, SpecColumn, applies it to the  *)
(* strings and widths of a bounded set.  `column` holds one call of it.    *)
(*                                                                         *)
(* u32 arithmetic: last_item_id + 1 cannot overflow below 2^32 - 1 items;  *)
(* the creates are capped at MaxId, far below that.                        *)
(***************************************************************************)
EXTENDS Integers, Sequences, FiniteSets, TLC

VARIABLES disk, last, returned, pages, nav, column

vars == <<disk, last, returned, pages, nav, column>>

\* ------------------------------------------------------------------ bounds
\* Creates are enabled while last_item_id < MaxId.
MaxId == 4

\* Ids passed by callers: 0 is never allocated; the others are allocated, not
\* yet allocated, or deleted, depending on the state.
IdArgs == 0..MaxId

\* In a session, creates are enabled while last_item_id < MaxSessionId, and
\* the numbers typed are 0..MaxSessionId.
MaxSessionId == 3

\* The texts given to get_column_string have at most MaxLen characters and
\* the widths are 0..MaxWidth.
MaxLen == 5
MaxWidth == 6

\* ------------------------------------------------------------------ models.rs
Status == {"Open", "InProgress", "Resolved", "Closed"}

Epic_new(name, description) ==
    [name |-> name, description |-> description, status |-> "Open",
     stories |-> <<>>]

Story_new(name, description) ==
    [name |-> name, description |-> description, status |-> "Open"]

\* DBState of a fresh database: the value MockDB::new starts from and the
\* content `{ "last_item_id": 0, "epics": {}, "stories": {} }`.
EmptyState == [last_item_id |-> 0, epics |-> <<>>, stories |-> <<>>]

\* The (name, description) pairs typed at the create prompts, and the statuses
\* chosen at the status prompt.
Texts == {[name |-> "a", description |-> "b"]}
StatusArgs == {"Open", "Closed"}

\* ------------------------------------------------------------------ std collections
\* HashMap::insert: the new value replaces an existing one.
HashMap_insert(m, k, v) == (k :> v) @@ m

\* HashMap::remove
HashMap_remove(m, k) == [x \in (DOMAIN m) \ {k} |-> m[x]]

\* HashMap::contains_key / get(..).is_some()
contains_key(m, k) == k \in DOMAIN m

\* Vec::contains
contains(v, x) == \E i \in 1..Len(v) : v[i] = x

\* Variant: the entry is put in front.
push_front(v, x) == <<x>> \o v

\* Vec::push
push(v, x) == Append(v, x)

\* Variant: the entry stays in the vector.
Vec_remove_nothing(v, index) == v

\* Variant: Vec::swap_remove, the last entry takes the place of the removed one.
Vec_swap_remove(v, index) ==
    IF index + 1 = Len(v) THEN SubSeq(v, 1, index)
    ELSE SubSeq(v, 1, index) \o <<v[Len(v)]>> \o SubSeq(v, index + 2, Len(v) - 1)

\* Vec::remove(index), index counted from 0; the tail shifts left.
Vec_remove(v, index) ==
    SubSeq(v, 1, index) \o SubSeq(v, index + 2, Len(v))

\* slice::binary_search: the loop of the standard library, indices from 0.
\* Returns [found |-> TRUE, index |-> i] for Ok(i), found |-> FALSE for Err.
RECURSIVE bsearch(_, _, _, _)
bsearch(v, x, left, right) ==
    IF left >= right
    THEN [found |-> FALSE, index |-> left]
    ELSE LET mid == left + ((right - left) \div 2)
         IN  IF v[mid + 1] < x THEN bsearch(v, x, mid + 1, right)
             ELSE IF v[mid + 1] > x THEN bsearch(v, x, left, mid)
             ELSE [found |-> TRUE, index |-> mid]

binary_search(v, x) == bsearch(v, x, 0, Len(v))

\* ------------------------------------------------------------------ persistence
\* Content of data/db.json: text that parses as a DBState ("ok", with db the
\* DBState serde_json::from_str yields for it), no file ("absent") or text
\* that does not parse as a DBState ("malformed").
Absent == [tag |-> "absent", db |-> EmptyState]
Malformed == [tag |-> "malformed", db |-> EmptyState]
FileOf(db_state) == [tag |-> "ok", db |-> db_state]

\* Outcomes of one JSONFileDatabase::write_db call: success; File::create
\* fails (file untouched); File::create truncates the file and
\* serde_json::to_writer then fails (file left empty or partial).
WriteOutcomes == {"ok", "create_failed", "write_failed"}

\* u32::to_string on the u32s in reach, and str::parse::<u32> on a text: the
\* number, or -1 for Err.
U32Range == 0..(MaxId + 1)
to_string == [n \in U32Range |-> ToString(n)]
U32Texts == {to_string[n] : n \in U32Range}
from_text == [text \in U32Texts |-> CHOOSE n \in U32Range : to_string[n] = text]
parse_u32(text) == IF text \in U32Texts THEN from_text[text] ELSE -1

\* #[derive(Serialize)] on Epic, Story and Status: a struct is an object of
\* its fields, a unit variant is its name as a string, a Vec is an array.
Epic_json(epic) ==
    [name |-> epic.name, description |-> epic.description,
     status |-> [variant |-> epic.status], stories |-> epic.stories]

Story_json(story) ==
    [name |-> story.name, description |-> story.description,
     status |-> [variant |-> story.status]]

\* A HashMap<u32, V> becomes an object whose keys are the decimal texts.
Epics_json(m) ==
    [k \in {to_string[id] : id \in DOMAIN m} |-> Epic_json(m[from_text[k]])]

Stories_json(m) ==
    [k \in {to_string[id] : id \in DOMAIN m} |-> Story_json(m[from_text[k]])]

\* Variant: the status is written with its Display label.
to_json_display(db_state) ==
    LET label(st) == CASE st = "Open" -> "OPEN"
                       [] st = "InProgress" -> "IN PROGRESS"
                       [] st = "Resolved" -> "RESOLVED"
                       [] OTHER -> "CLOSED"
        shown(m) == [k \in DOMAIN m |-> [m[k] EXCEPT !.status.variant = label(@)]]
    IN  [last_item_id |-> db_state.last_item_id,
         epics |-> shown(Epics_json(db_state.epics)),
         stories |-> shown(Stories_json(db_state.stories))]

\* serde_json::to_writer(file, db_state): the JSON document written.
to_json(db_state) ==
    [last_item_id |-> db_state.last_item_id,
     epics |-> Epics_json(db_state.epics),
     stories |-> Stories_json(db_state.stories)]

\* serde_json::from_str::<DBState>: every key must parse as a u32 and every
\* status must name a variant; [ok |-> FALSE] for Err.
from_str(json) ==
    LET good ==
          /\ \A k \in DOMAIN json.epics :
               parse_u32(k) >= 0 /\ json.epics[k].status.variant \in Status
          /\ \A k \in DOMAIN json.stories :
               parse_u32(k) >= 0 /\ json.stories[k].status.variant \in Status
        epic_of(j) == [name |-> j.name, description |-> j.description,
                       status |-> j.status.variant, stories |-> j.stories]
        story_of(j) == [name |-> j.name, description |-> j.description,
                        status |-> j.status.variant]
    IN  IF ~good THEN [ok |-> FALSE, db |-> EmptyState]
        ELSE [ok |-> TRUE,
              db |-> [last_item_id |-> json.last_item_id,
                      epics |-> [id \in {parse_u32(k) : k \in DOMAIN json.epics} |->
                                    epic_of(json.epics[to_string[id]])],
                      stories |-> [id \in {parse_u32(k) : k \in DOMAIN json.stories} |->
                                    story_of(json.stories[to_string[id]])]]]

\* The file that holds a JSON document.
FileWith(json) ==
    LET parsed == from_str(json)
    IN  IF parsed.ok THEN FileOf(parsed.db) ELSE Malformed

\* Variant: text that does not parse is read as the empty state.
Database_read_db_lenient(file) ==
    IF file.tag \in {"ok", "malformed"}
    THEN [ok |-> TRUE, db |-> IF file.tag = "ok" THEN file.db ELSE EmptyState]
    ELSE [ok |-> FALSE, db |-> EmptyState]

\* Variant: a file that does not exist is read as the empty state.
Database_read_db_default(file) ==
    IF file.tag \in {"ok", "absent"}
    THEN [ok |-> TRUE, db |-> IF file.tag = "ok" THEN file.db ELSE EmptyState]
    ELSE [ok |-> FALSE, db |-> EmptyState]

\* JSONFileDatabase::read_db: Ok(db) or Err(ReadError) (ok = FALSE; db is then
\* a filler no caller looks at).
Database_read_db(file) ==
    IF file.tag = "ok"
    THEN [ok |-> TRUE, db |-> file.db]
    ELSE [ok |-> FALSE, db |-> EmptyState]

\* JSONFileDatabase::write_db
Database_write_db(file, db_state, w) ==
    CASE w = "ok" -> [ok |-> TRUE, file |-> FileWith(to_json(db_state))]
      [] w = "create_failed" -> [ok |-> FALSE, file |-> file]
      [] OTHER -> [ok |-> FALSE, file |-> Malformed]

\* ------------------------------------------------------------------ JiraDatabase
\* Every method returns [res, id, file, writes, written]: the Ok/Err kind, the
\* id of Ok(id) (0 when there is none), the file afterwards, how many times
\* write_db was called, and the db_state it was called with (EmptyState when
\* it was not called).
Failed(kind, file) ==
    [res |-> kind, id |-> 0, file |-> file, writes |-> 0, written |-> EmptyState]

\* Variant: the state is written a second time after the first write.
Persist_twice(file, db_state, w, id) ==
    LET r == Database_write_db(Database_write_db(file, db_state, w).file,
                               db_state, w)
    IN  [res |-> IF r.ok THEN "Ok" ELSE "Write",
         id |-> IF r.ok THEN id ELSE 0,
         file |-> r.file, writes |-> 2, written |-> db_state]

\* The `self.database.write_db(&db_state).change_context(Write)?; Ok(..)` tail.
Persist(file, db_state, w, id) ==
    LET r == Database_write_db(file, db_state, w)
    IN  [res |-> IF r.ok THEN "Ok" ELSE "Write",
         id |-> IF r.ok THEN id ELSE 0,
         file |-> r.file, writes |-> 1, written |-> db_state]

\* Variant: the id is the entity count plus one.
NextId_count(db_state) ==
    Cardinality((DOMAIN db_state.epics) \cup (DOMAIN db_state.stories)) + 1

\* Variant: the increment is missing.
NextId_same(db_state) == db_state.last_item_id

\* let id = db_state.last_item_id + 1;
NextId(db_state) == db_state.last_item_id + 1

\* Variant: db_state.last_item_id = id is missing.
create_epic_stale_counter(file, epic, w) ==
    LET r == Database_read_db(file)
    IN  IF ~r.ok THEN Failed("Read", file)
        ELSE LET db_state == r.db
                 id == db_state.last_item_id + 1
                 s1 == [db_state EXCEPT !.epics = HashMap_insert(@, id, epic)]
             IN  Persist(file, s1, w, id)

create_epic(file, epic, w) ==
    LET r == Database_read_db(file)
    IN  IF ~r.ok THEN Failed("Read", file)
        ELSE LET db_state == r.db
                 id == NextId(db_state)
                 s1 == [db_state EXCEPT !.epics = HashMap_insert(@, id, epic)]
                 s2 == [s1 EXCEPT !.last_item_id = id]
             IN  Persist(file, s2, w, id)

\* Variant: the story is inserted and written before the epic is looked up.
create_story_write_first(file, story, epic_id, w) ==
    LET r == Database_read_db(file)
    IN  IF ~r.ok THEN Failed("Read", file)
        ELSE LET db_state == r.db
                 id == db_state.last_item_id + 1
                 s1 == [db_state EXCEPT !.stories = HashMap_insert(@, id, story)]
                 s2 == [s1 EXCEPT !.last_item_id = id]
             IN  IF ~contains_key(db_state.epics, epic_id)
                 THEN [Persist(file, s2, w, 0) EXCEPT !.res = "NoEpicWithID"]
                 ELSE Persist(file,
                        [s2 EXCEPT !.epics[epic_id].stories = push(@, id)], w, id)

create_story(file, story, epic_id, w) ==
    LET r == Database_read_db(file)
    IN  IF ~r.ok THEN Failed("Read", file)
        ELSE LET db_state == r.db
             IN  IF ~contains_key(db_state.epics, epic_id)
                 THEN Failed("NoEpicWithID", file)
                 ELSE LET id == NextId(db_state)
                          s1 == [db_state EXCEPT
                                   !.stories = HashMap_insert(@, id, story)]
                          s2 == [s1 EXCEPT !.epics[epic_id].stories = push(@, id)]
                          s3 == [s2 EXCEPT !.last_item_id = id]
                      IN  Persist(file, s3, w, id)

\* Variant: the loop is missing, no story is removed.
remove_stories_nothing(stories, list, i) == stories

\* Variant: the loop stops after the first story.
remove_stories_first(stories, list, i) ==
    IF Len(list) = 0 THEN stories ELSE HashMap_remove(stories, list[1])

\* for story in &epic.stories { db_state.stories.remove(story); }
RECURSIVE remove_stories(_, _, _)
remove_stories(stories, list, i) ==
    IF i > Len(list) THEN stories
    ELSE remove_stories(HashMap_remove(stories, list[i]), list, i + 1)

\* Variant: deleting an epic that is not there succeeds and rewrites the file.
delete_epic_idempotent(file, epic_id, w) ==
    LET r == Database_read_db(file)
    IN  IF ~r.ok THEN Failed("Read", file)
        ELSE LET db_state == r.db
                 listed == IF contains_key(db_state.epics, epic_id)
                           THEN db_state.epics[epic_id].stories ELSE <<>>
                 s1 == [db_state EXCEPT !.stories = remove_stories(@, listed, 1)]
                 s2 == [s1 EXCEPT !.epics = HashMap_remove(@, epic_id)]
             IN  Persist(file, s2, w, 0)

delete_epic(file, epic_id, w) ==
    LET r == Database_read_db(file)
    IN  IF ~r.ok THEN Failed("Read", file)
        ELSE LET db_state == r.db
             IN  IF ~contains_key(db_state.epics, epic_id)
                 THEN Failed("NoEpicWithID", file)
                 ELSE LET epic == db_state.epics[epic_id]
                          s1 == [db_state EXCEPT
                                   !.stories = remove_stories(@, epic.stories, 1)]
                          s2 == [s1 EXCEPT !.epics = HashMap_remove(@, epic_id)]
                      IN  Persist(file, s2, w, 0)

\* Variant: the story is looked up in the stories map, not in the epic's own
\* list, and dropped from whichever epic lists it.
delete_story_any_epic(file, epic_id, story_id, w) ==
    LET r == Database_read_db(file)
    IN  IF ~r.ok THEN Failed("Read", file)
        ELSE LET db_state == r.db
             IN  IF ~contains_key(db_state.epics, epic_id)
                 THEN Failed("NoEpicWithID", file)
                 ELSE IF ~contains_key(db_state.stories, story_id)
                      THEN Failed("NoStoryWithID", file)
                      ELSE Persist(file,
                             [last_item_id |-> db_state.last_item_id,
                              stories |-> HashMap_remove(db_state.stories, story_id),
                              epics |-> [e \in DOMAIN db_state.epics |->
                                  [db_state.epics[e] EXCEPT !.stories =
                                     SelectSeq(@, LAMBDA x : x # story_id)]]],
                             w, 0)

delete_story(file, epic_id, story_id, w) ==
    LET r == Database_read_db(file)
    IN  IF ~r.ok THEN Failed("Read", file)
        ELSE LET db_state == r.db
             IN  IF ~contains_key(db_state.epics, epic_id)
                 THEN Failed("NoEpicWithID", file)
                 ELSE LET epic == db_state.epics[epic_id]
                      IN  IF contains(epic.stories, story_id)
                          THEN IF ~contains_key(db_state.stories, story_id)
                               THEN Failed("NoStoryWithID", file)
                               ELSE LET s1 == [db_state EXCEPT !.stories =
                                                 HashMap_remove(@, story_id)]
                                        pos == binary_search(epic.stories, story_id)
                                    IN  IF ~pos.found
                                        THEN Failed("Panic", file)
                                        ELSE Persist(file,
                                               [s1 EXCEPT !.epics[epic_id].stories =
                                                  Vec_remove(@, pos.index)],
                                               w, 0)
                          ELSE Failed("NoStoryWithID", file)

\* Variant: the epic is rebuilt with Epic::new and the new status.
update_epic_status_rebuild(file, epic_id, status, w) ==
    LET r == Database_read_db(file)
    IN  IF ~r.ok THEN Failed("Read", file)
        ELSE LET db_state == r.db
             IN  IF ~contains_key(db_state.epics, epic_id)
                 THEN Failed("NoEpicWithID", file)
                 ELSE LET old == db_state.epics[epic_id]
                          new == [Epic_new(old.name, old.description)
                                    EXCEPT !.status = status]
                      IN  Persist(file,
                            [db_state EXCEPT !.epics[epic_id] = new], w, 0)

update_epic_status(file, epic_id, status, w) ==
    LET r == Database_read_db(file)
    IN  IF ~r.ok THEN Failed("Read", file)
        ELSE LET db_state == r.db
             IN  IF ~contains_key(db_state.epics, epic_id)
                 THEN Failed("NoEpicWithID", file)
                 ELSE Persist(file,
                        [db_state EXCEPT !.epics[epic_id].status = status], w, 0)

\* Variant: a missing story is reported with the story's own error kind.
update_story_status_story_kind(file, story_id, status, w) ==
    LET r == Database_read_db(file)
    IN  IF ~r.ok THEN Failed("Read", file)
        ELSE LET db_state == r.db
             IN  IF ~contains_key(db_state.stories, story_id)
                 THEN Failed("NoStoryWithID", file)
                 ELSE Persist(file,
                        [db_state EXCEPT !.stories[story_id].status = status], w, 0)

update_story_status(file, story_id, status, w) ==
    LET r == Database_read_db(file)
    IN  IF ~r.ok THEN Failed("Read", file)
        ELSE LET db_state == r.db
             IN  IF ~contains_key(db_state.stories, story_id)
                 THEN Failed("NoEpicWithID", file)
                 ELSE Persist(file,
                        [db_state EXCEPT !.stories[story_id].status = status], w, 0)

\* JiraDatabase::read_db
read_db(file) ==
    LET r == Database_read_db(file)
    IN  IF r.ok THEN [Failed("Ok", file) EXCEPT !.res = "Ok"]
        ELSE Failed("Read", file)

\* ------------------------------------------------------------------ state machine
\* What `last` remembers of a call: the method and what it gave back.
Call(op, out) ==
    [op |-> op, res |-> out.res, id |-> out.id, writes |-> out.writes]

NoCall == [op |-> "none", res |-> "Ok", id |-> 0, writes |-> 0]

\* Page values: HomePage, EpicDetail { epic_id }, StoryDetail { epic_id,
\* story_id } (a field a page does not have is 0).
Home == [kind |-> "Home", epic_id |-> 0, story_id |-> 0]
EpicDetail(epic_id) == [kind |-> "EpicDetail", epic_id |-> epic_id, story_id |-> 0]
StoryDetail(epic_id, story_id) ==
    [kind |-> "StoryDetail", epic_id |-> epic_id, story_id |-> story_id]

\* What a turn of the main loop did: how far it got, the Action it handled
\* ("None" when there was none), the store method handle_action called
\* ("none" when it called none) and how the turn ended.
NoTurn == [step |-> "start", action |-> "None", call |-> "none", res |-> "Ok"]

\* ------------------------------------------------------------------ ui/pages/page_helpers.rs
\* Strings are sequences of characters; in ASCII text a byte is a character,
\* so str::len and the byte ranges of the slices count characters.
Chars == {"a", "."}

Dots == <<".", ".", ".">>

\* A string of n spaces: String::from_utf8_lossy(&vec![b' '; n]).
Spaces(n) == [i \in 1..n |-> " "]

\* The outcome of an expression that can panic.
Panic == [panic |-> TRUE, text |-> <<>>]
Returned(text) == [panic |-> FALSE, text |-> text]

\* &s[from..]: panics when from is past the end of s.
slice_from(s, from) ==
    IF from > Len(s) THEN Panic ELSE Returned(SubSeq(s, from + 1, Len(s)))

\* &s[..to]: panics when to is past the end of s.
slice_to(s, to) ==
    IF to > Len(s) THEN Panic ELSE Returned(SubSeq(s, 1, to))

\* a - b on usize: below zero the subtraction panics (or, with overflow
\* checks off, wraps to a length no vec! can be allocated with).
usize_sub(a, b) == IF b > a THEN Panic ELSE [panic |-> FALSE, value |-> a - b]

\* Ellipse::truncate_ellipse of the ellipse crate: the text itself when it
\* fits in len characters, the empty string when len is 0, the first len
\* characters followed by "..." otherwise.
truncate_ellipse(text, len) ==
    IF Len(text) <= len THEN text
    ELSE IF len = 0 THEN <<>>
    ELSE SubSeq(text, 1, len) \o Dots

\* get_column_string(text, width).
get_column_string(text, width) ==
    LET elp == truncate_ellipse(text, width)
    IN  IF width = 0 THEN Returned(elp)
        ELSE IF width <= 3 THEN slice_from(elp, 3)
        ELSE IF Len(text) <= width
        THEN LET padding_len == usize_sub(width, Len(elp))
             IN  IF padding_len.panic THEN Panic
                 ELSE Returned(elp \o Spaces(padding_len.value))
        ELSE LET head == slice_to(elp, width - 3)
                 tail == slice_from(elp, width)
             IN  IF head.panic \/ tail.panic THEN Panic
                 ELSE Returned(head.text \o tail.text)

\* What `column` holds: the arguments of a call and, once it is over, its
\* outcome.
Asked(text, width) ==
    [step |-> "asked", text |-> text, width |-> width, out |-> Returned(<<>>)]

NoColumn == Asked(<<>>, 0)

\* main.rs: the file data/db.json holds a database or does not exist.
Init ==
    /\ disk \in {FileOf(EmptyState), Absent}
    /\ last = NoCall
    /\ returned = {}
    /\ pages = <<Home>>
    /\ nav = NoTurn
    /\ column = NoColumn

\* The id a create would allocate stays within the bound.
CanAllocate == disk.tag = "ok" => disk.db.last_item_id < MaxId

\* The write outcomes a call can meet: one of WriteOutcomes when the call
\* gets as far as write_db (probe is its outcome under one of them), no
\* choice otherwise.
Outcomes(probe) == IF probe.writes = 0 THEN {"ok"} ELSE WriteOutcomes

\* The call returns: the file and the record of the call change together.
Return(out, call) ==
    /\ disk' = out.file
    /\ last' = call
    /\ returned' = IF out.res = "Ok" /\ out.id # 0 THEN returned \cup {out.id}
                   ELSE returned
    /\ UNCHANGED <<pages, nav, column>>

Do_create_epic ==
    /\ CanAllocate
    /\ \E t \in Texts :
         LET epic == Epic_new(t.name, t.description)
         IN  \E w \in Outcomes(create_epic(disk, epic, "create_failed")) :
               LET out == create_epic(disk, epic, w)
               IN  Return(out, Call("create_epic", out))

Do_create_story ==
    /\ CanAllocate
    /\ \E t \in Texts, epic_id \in IdArgs :
         LET story == Story_new(t.name, t.description)
         IN  \E w \in Outcomes(create_story(disk, story, epic_id, "create_failed")) :
               LET out == create_story(disk, story, epic_id, w)
               IN  Return(out, Call("create_story", out))

Do_delete_epic ==
    \E epic_id \in IdArgs :
      \E w \in Outcomes(delete_epic(disk, epic_id, "create_failed")) :
        LET out == delete_epic(disk, epic_id, w)
        IN  Return(out, Call("delete_epic", out))

Do_delete_story ==
    \E epic_id \in IdArgs, story_id \in IdArgs :
      \E w \in Outcomes(delete_story(disk, epic_id, story_id, "create_failed")) :
        LET out == delete_story(disk, epic_id, story_id, w)
        IN  Return(out, Call("delete_story", out))

Do_update_epic_status ==
    \E epic_id \in IdArgs, status \in StatusArgs :
      \E w \in Outcomes(update_epic_status(disk, epic_id, status, "create_failed")) :
        LET out == update_epic_status(disk, epic_id, status, w)
        IN  Return(out, Call("update_epic_status", out))

Do_update_story_status ==
    \E story_id \in IdArgs, status \in StatusArgs :
      \E w \in Outcomes(update_story_status(disk, story_id, status, "create_failed")) :
        LET out == update_story_status(disk, story_id, status, w)
        IN  Return(out, Call("update_story_status", out))

Do_read_db ==
    LET out == read_db(disk)
    IN  Return(out, Call("read_db", out))

Next ==
    \/ Do_create_epic
    \/ Do_create_story
    \/ Do_delete_epic
    \/ Do_delete_story
    \/ Do_update_epic_status
    \/ Do_update_story_status
    \/ Do_read_db

Spec == Init /\ [][Next]_vars

\* The calls made on a database file that starts with the empty state.
InitFresh == Init /\ disk = FileOf(EmptyState)

SpecFresh == InitFresh /\ [][Next]_vars

\* ------------------------------------------------------------------ vocabulary
Readable == disk.tag = "ok"
epics == disk.db.epics
stories == disk.db.stories
last_item_id == disk.db.last_item_id

\* The ids listed in an epic's stories vector.
Listed(epic) == {epic.stories[i] : i \in 1..Len(epic.stories)}

\* A map without some keys.
Without(m, keys) == [x \in (DOMAIN m) \ keys |-> m[x]]

Succeeded(call, op) == call.op = op /\ call.res = "Ok"

Keys == (DOMAIN epics) \cup (DOMAIN stories)

\* The entities the prompts can produce.
EpicArgs == {Epic_new(t.name, t.description) : t \in Texts}
StoryArgs == {Story_new(t.name, t.description) : t \in Texts}

\* The outcomes of every create call, and of every other mutating call, that
\* can be made in the current state.
CreateOuts ==
    {create_epic(disk, epic, w) : epic \in EpicArgs, w \in WriteOutcomes}
    \cup {create_story(disk, story, e, w) :
              story \in StoryArgs, e \in IdArgs, w \in WriteOutcomes}

OtherOuts ==
    {delete_epic(disk, e, w) : e \in IdArgs, w \in WriteOutcomes}
    \cup {delete_story(disk, e, s, w) :
              e \in IdArgs, s \in IdArgs, w \in WriteOutcomes}
    \cup {update_epic_status(disk, e, st, w) :
              e \in IdArgs, st \in StatusArgs, w \in WriteOutcomes}
    \cup {update_story_status(disk, s, st, w) :
              s \in IdArgs, st \in StatusArgs, w \in WriteOutcomes}

\* ------------------------------------------------------------------ C1
\* C1: whenever the store is readable, every id in every epic's stories list
\* is a key of the stories map, whatever calls (successful or failed) came
\* before.
C1_NoDanglingStory ==
    Readable => \A e \in DOMAIN epics : Listed(epics[e]) \subseteq DOMAIN stories

\* A story was deleted from an epic that still lists another one.
C1_Witness ==
    /\ Readable
    /\ Succeeded(last, "delete_story")
    /\ \E e \in DOMAIN epics : Len(epics[e].stories) >= 1

\* ------------------------------------------------------------------ C2
\* C2: a successful create_epic or create_story returns last_item_id + 1,
\* stores the given entity under that id and leaves last_item_id equal to it;
\* the ids returned so far are exactly 1..last_item_id, so they went up by one
\* each time starting at 1.
C2_IdAllocation ==
    Readable =>
      /\ returned = 1..last_item_id
      /\ \A epic \in EpicArgs, w \in WriteOutcomes :
           LET out == create_epic(disk, epic, w)
           IN  out.res = "Ok" =>
                 /\ out.id = last_item_id + 1
                 /\ out.file.tag = "ok"
                 /\ out.file.db.last_item_id = out.id
                 /\ out.id \in DOMAIN out.file.db.epics
                 /\ out.file.db.epics[out.id] = epic
      /\ \A story \in StoryArgs, e \in IdArgs, w \in WriteOutcomes :
           LET out == create_story(disk, story, e, w)
           IN  out.res = "Ok" =>
                 /\ out.id = last_item_id + 1
                 /\ out.file.tag = "ok"
                 /\ out.file.db.last_item_id = out.id
                 /\ out.id \in DOMAIN out.file.db.stories
                 /\ out.file.db.stories[out.id] = story

\* Epics 1 and 2 were created, then a story, which got id 3.
C2_Witness ==
    /\ Readable
    /\ Succeeded(last, "create_story")
    /\ last.id = 3
    /\ returned = {1, 2, 3}
    /\ DOMAIN epics = {1, 2}

\* ------------------------------------------------------------------ C3
\* C3: every key of epics and stories is <= last_item_id; no call lowers
\* last_item_id, deletes and status updates leave it as it is; and the id a
\* successful create returns was never returned before, deleted or not.
C3_IdsNeverReused ==
    Readable =>
      /\ \A k \in Keys : k <= last_item_id
      /\ \A out \in CreateOuts :
           /\ out.file.tag = "ok" => out.file.db.last_item_id >= last_item_id
           /\ out.res = "Ok" => out.id \notin returned
      /\ \A out \in OtherOuts :
           out.file.tag = "ok" => out.file.db.last_item_id = last_item_id

\* An epic is created after an earlier entity was deleted.
C3_Witness ==
    /\ Readable
    /\ Succeeded(last, "create_epic")
    /\ \E k \in returned : k < last.id /\ k \notin Keys

\* ------------------------------------------------------------------ C4
\* C4: no id is at the same time a key of epics and a key of stories.
C4_DisjointIds ==
    Readable => (DOMAIN epics) \cap (DOMAIN stories) = {}

\* Two epics and two stories are stored.
C4_Witness ==
    /\ Readable
    /\ Cardinality(DOMAIN epics) = 2
    /\ Cardinality(DOMAIN stories) = 2

\* ------------------------------------------------------------------ C5
\* The places (epic, position) at which a story id is listed.
Places(s) ==
    {p \in UNION {{<<e, i>> : i \in 1..Len(epics[e].stories)} : e \in DOMAIN epics} :
        epics[p[1]].stories[p[2]] = s}

\* C5: every key of stories is listed by exactly one epic, exactly once.
C5_OneEpicPerStory ==
    Readable => \A s \in DOMAIN stories : Cardinality(Places(s)) = 1

\* Two epics list a story each.
C5_Witness ==
    /\ Readable
    /\ \E e1 \in DOMAIN epics, e2 \in DOMAIN epics :
         e1 # e2 /\ epics[e1].stories # <<>> /\ epics[e2].stories # <<>>

\* ------------------------------------------------------------------ C6
\* C6: on a readable store, create_story with an epic_id that is no key of
\* epics fails with NoEpicWithID, calls write_db not at all and leaves the
\* file as it was: no id is allocated, no story inserted.
C6_CreateStoryNoEpic ==
    Readable =>
      \A story \in StoryArgs, e \in IdArgs \ DOMAIN epics, w \in WriteOutcomes :
        LET out == create_story(disk, story, e, w)
        IN  /\ out.res = "NoEpicWithID"
            /\ out.id = 0
            /\ out.writes = 0
            /\ out.file = disk

\* create_story was refused on a store that holds epics and stories and
\* could still allocate an id.
C6_Witness ==
    /\ Readable
    /\ last.op = "create_story" /\ last.res = "NoEpicWithID" /\ last.writes = 0
    /\ epics # <<>> /\ stories # <<>>
    /\ last_item_id < MaxId

\* ------------------------------------------------------------------ C7
\* C7: a successful delete_epic(epic_id) removes the epic and every story id
\* of its list from the stories map; every other epic, every other story and
\* last_item_id are as before.
C7_CascadingDelete ==
    Readable =>
      \A e \in IdArgs, w \in WriteOutcomes :
        LET out == delete_epic(disk, e, w)
        IN  out.res = "Ok" =>
              /\ e \in DOMAIN epics
              /\ out.file.tag = "ok"
              /\ out.file.db.epics = Without(epics, {e})
              /\ out.file.db.stories = Without(stories, Listed(epics[e]))
              /\ out.file.db.last_item_id = last_item_id

\* An epic was deleted; four ids were handed out, and one epic with its one
\* story is what remains.
C7_Witness ==
    /\ Readable
    /\ Succeeded(last, "delete_epic")
    /\ returned = 1..4
    /\ \E e \in DOMAIN epics : DOMAIN epics = {e} /\ Len(epics[e].stories) = 1
    /\ Cardinality(DOMAIN stories) = 1

\* ------------------------------------------------------------------ C8
\* C8: on a readable store, delete_story(epic_id, story_id) fails and leaves
\* the file as it was, with NoEpicWithID when epic_id is no key of epics and
\* with NoStoryWithID when story_id is not in that epic's list, also when
\* another epic lists it.
C8_DeleteStoryRefused ==
    Readable =>
      \A e \in IdArgs, s \in IdArgs, w \in WriteOutcomes :
        LET out == delete_story(disk, e, s, w)
        IN  /\ e \notin DOMAIN epics =>
                  out.res = "NoEpicWithID" /\ out.writes = 0 /\ out.file = disk
            /\ (e \in DOMAIN epics /\ s \notin Listed(epics[e])) =>
                  out.res = "NoStoryWithID" /\ out.writes = 0 /\ out.file = disk

\* delete_story was refused with NoStoryWithID on a store where one epic
\* lists a story that another epic does not.
C8_Witness ==
    /\ Readable
    /\ last.op = "delete_story" /\ last.res = "NoStoryWithID"
    /\ \E e1 \in DOMAIN epics, e2 \in DOMAIN epics :
         \E s \in Listed(epics[e2]) :
            /\ e1 # e2
            /\ s \in DOMAIN stories
            /\ delete_story(disk, e1, s, "ok").res = "NoStoryWithID"

\* ------------------------------------------------------------------ C9
\* C9: a successful delete_story(epic_id, story_id) removes story_id from the
\* stories map and exactly one entry, story_id, from that epic's list, the
\* other entries keeping their order; the epic's other fields, the other
\* epics and stories and last_item_id are as before.
C9_DeleteStory ==
    Readable =>
      \A e \in IdArgs, s \in IdArgs, w \in WriteOutcomes :
        LET out == delete_story(disk, e, s, w)
            after == out.file.db
        IN  out.res = "Ok" =>
              /\ e \in DOMAIN epics
              /\ out.file.tag = "ok"
              /\ after.stories = Without(stories, {s})
              /\ after.last_item_id = last_item_id
              /\ DOMAIN after.epics = DOMAIN epics
              /\ \A k \in DOMAIN epics : k # e => after.epics[k] = epics[k]
              /\ after.epics[e].name = epics[e].name
              /\ after.epics[e].description = epics[e].description
              /\ after.epics[e].status = epics[e].status
              /\ Len(after.epics[e].stories) = Len(epics[e].stories) - 1
              /\ after.epics[e].stories =
                    SelectSeq(epics[e].stories, LAMBDA x : x # s)

\* A story was deleted from the one epic, which had three and keeps two.
C9_Witness ==
    /\ Readable
    /\ Succeeded(last, "delete_story")
    /\ returned = 1..4
    /\ DOMAIN epics = {1}
    /\ Len(epics[1].stories) = 2
    /\ Cardinality(DOMAIN stories) = 2

\* ------------------------------------------------------------------ C10
\* C10: a successful update_epic_status(epic_id, s) changes epics[epic_id].status
\* to s and nothing else, and a successful update_story_status(story_id, s)
\* changes stories[story_id].status to s and nothing else.
C10_StatusOnly ==
    Readable =>
      \A id \in IdArgs, st \in StatusArgs, w \in WriteOutcomes :
        LET oe == update_epic_status(disk, id, st, w)
            os == update_story_status(disk, id, st, w)
        IN  /\ oe.res = "Ok" =>
                  /\ id \in DOMAIN epics
                  /\ oe.file.tag = "ok"
                  /\ oe.file.db.last_item_id = last_item_id
                  /\ oe.file.db.stories = stories
                  /\ DOMAIN oe.file.db.epics = DOMAIN epics
                  /\ \A k \in DOMAIN epics : k # id => oe.file.db.epics[k] = epics[k]
                  /\ oe.file.db.epics[id].status = st
                  /\ oe.file.db.epics[id].name = epics[id].name
                  /\ oe.file.db.epics[id].description = epics[id].description
                  /\ oe.file.db.epics[id].stories = epics[id].stories
            /\ os.res = "Ok" =>
                  /\ id \in DOMAIN stories
                  /\ os.file.tag = "ok"
                  /\ os.file.db.last_item_id = last_item_id
                  /\ os.file.db.epics = epics
                  /\ DOMAIN os.file.db.stories = DOMAIN stories
                  /\ \A k \in DOMAIN stories : k # id => os.file.db.stories[k] = stories[k]
                  /\ os.file.db.stories[id].status = st
                  /\ os.file.db.stories[id].name = stories[id].name
                  /\ os.file.db.stories[id].description = stories[id].description

\* An epic that lists stories was closed while a story is closed and
\* another epic is still open.
C10_Witness ==
    /\ Readable
    /\ Succeeded(last, "update_epic_status")
    /\ \E e \in DOMAIN epics, f \in DOMAIN epics, s \in DOMAIN stories :
         /\ epics[e].status = "Closed" /\ epics[e].stories # <<>>
         /\ epics[f].status = "Open"
         /\ stories[s].status = "Closed"

\* ------------------------------------------------------------------ C11
\* C11: on a readable store, update_story_status with a story_id that is no
\* key of stories (an epic's id included) fails with NoEpicWithID, not with
\* NoStoryWithID, and leaves the file as it was.
C11_UpdateStoryNoStory ==
    Readable =>
      \A s \in IdArgs \ DOMAIN stories, st \in StatusArgs, w \in WriteOutcomes :
        LET out == update_story_status(disk, s, st, w)
        IN  /\ out.res = "NoEpicWithID"
            /\ out.writes = 0
            /\ out.file = disk

\* update_story_status was refused on a store that holds an epic (whose id
\* is no story id) and a story.
C11_Witness ==
    /\ Readable
    /\ last.op = "update_story_status" /\ last.res = "NoEpicWithID"
    /\ epics # <<>> /\ stories # <<>>
    /\ \E e \in DOMAIN epics :
         update_story_status(disk, e, "Closed", "ok").res = "NoEpicWithID"

\* ------------------------------------------------------------------ C12
\* C12: on a readable store, delete_epic and update_epic_status with an
\* epic_id that is no key of epics fail with NoEpicWithID, do not call
\* write_db and leave the file as it was.
C12_NoEpic ==
    Readable =>
      \A e \in IdArgs \ DOMAIN epics, st \in StatusArgs, w \in WriteOutcomes :
        LET od == delete_epic(disk, e, w)
            ou == update_epic_status(disk, e, st, w)
        IN  /\ od.res = "NoEpicWithID" /\ od.writes = 0 /\ od.file = disk
            /\ ou.res = "NoEpicWithID" /\ ou.writes = 0 /\ ou.file = disk

\* delete_epic was refused on a store that holds an epic and a story (whose
\* id is no epic id).
C12_Witness ==
    /\ Readable
    /\ last.op = "delete_epic" /\ last.res = "NoEpicWithID" /\ last.writes = 0
    /\ epics # <<>> /\ stories # <<>>

\* ------------------------------------------------------------------ C13
\* C13: whenever a call returns a failure of any kind the file is exactly
\* what it was before the call; the file changes only with a call that
\* succeeds.
C13_AllOrNothing == [][last'.res # "Ok" => disk' = disk]_vars

\* ------------------------------------------------------------------ C14
\* The states handed to write_db by the calls that can be made now (the state
\* handed over is built before the write, so one write outcome shows them all).
Written ==
    LET w == "create_failed"
        outs ==
          {create_epic(disk, epic, w) : epic \in EpicArgs}
          \cup {create_story(disk, story, e, w) : story \in StoryArgs, e \in IdArgs}
          \cup {delete_epic(disk, e, w) : e \in IdArgs}
          \cup {delete_story(disk, e, s, w) : e \in IdArgs, s \in IdArgs}
          \cup {update_epic_status(disk, e, st, w) : e \in IdArgs, st \in StatusArgs}
          \cup {update_story_status(disk, s, st, w) : s \in IdArgs, st \in StatusArgs}
    IN  {out.written : out \in {o \in outs : o.writes = 1}}

\* C14: for the state on file and for every state a call hands to write_db,
\* a successful write_db followed by read_db gives back an equal state.
C14_RoundTrip ==
    Readable =>
      \A s \in Written \cup {disk.db} :
        Database_read_db(Database_write_db(disk, s, "ok").file) = [ok |-> TRUE, db |-> s]

\* The file was rewritten with two epics, one of them closed and listing two
\* stories.
C14_Witness ==
    /\ Readable
    /\ last.res = "Ok" /\ last.writes = 1
    /\ Cardinality(DOMAIN epics) = 2
    /\ \E e \in DOMAIN epics :
         epics[e].status = "Closed" /\ Len(epics[e].stories) = 2

\* ------------------------------------------------------------------ C15
\* C15: while the file is absent or malformed, the strategy's read_db fails,
\* JiraDatabase::read_db returns Err(Read), and no call gets a state to work
\* on: each returns Err(Read) without writing.
C15_ReadFailure ==
    ~Readable =>
      /\ ~Database_read_db(disk).ok
      /\ read_db(disk).res = "Read"
      /\ \A out \in CreateOuts \cup OtherOuts :
           out.res = "Read" /\ out.writes = 0 /\ out.file = disk

\* read_db was called on a file left malformed by a failed write.
C15_Witness ==
    /\ disk = Malformed
    /\ last.op = "read_db"
    /\ last.res = "Read"
    /\ returned # {}

\* ------------------------------------------------------------------ C16
\* C16 as stated: with no file, the first read succeeds with the empty state
\* and the first create_epic returns 1.
C16_StartsEmpty ==
    disk = Absent =>
      /\ read_db(disk).res = "Ok"
      /\ Database_read_db(disk) = [ok |-> TRUE, db |-> EmptyState]
      /\ \A epic \in EpicArgs :
           LET out == create_epic(disk, epic, "ok")
           IN  out.res = "Ok" /\ out.id = 1

\* C16, amended: with no file, every read and every call returns Err(Read),
\* nothing is written and the file stays absent; from a file that holds the
\* empty state, the read succeeds with that state and create_epic returns 1.
C16_NoFileNoStore ==
    /\ disk = Absent =>
         /\ read_db(disk).res = "Read"
         /\ \A out \in CreateOuts \cup OtherOuts :
              out.res = "Read" /\ out.writes = 0 /\ out.file = Absent
    /\ disk = FileOf(EmptyState) =>
         /\ Database_read_db(disk) = [ok |-> TRUE, db |-> EmptyState]
         /\ \A epic \in EpicArgs :
              LET out == create_epic(disk, epic, "ok")
              IN  out.res = "Ok" /\ out.id = 1

\* create_epic was called with no file: it returned Err(Read).
C16_Witness ==
    /\ disk = Absent
    /\ last.op = "create_epic"
    /\ last.res = "Read"
    /\ last.writes = 0

\* ------------------------------------------------------------------ models.rs: Action
Action(kind, epic_id, story_id) ==
    [kind |-> kind, epic_id |-> epic_id, story_id |-> story_id]

\* Option<Action>::None
None == Action("None", 0, 0)

\* ------------------------------------------------------------------ ui/pages/mod.rs
\* str::parse::<u32> on a typed line: as for the decimal texts, and a leading
\* "+" or leading zeros are accepted too; -1 for Err.
str_parse_u32(text) ==
    CASE text = "+1" -> 1
      [] text = "01" -> 1
      [] OTHER -> parse_u32(text)

\* Every handle_input returns [res, action]: "Ok" with Some(action) or None,
\* or "DrawError" (with None as a filler).
Handled(action) == [res |-> "Ok", action |-> action]
PageError == [res |-> "DrawError", action |-> None]

\* Variant: the home page also offers [p].
HomePage_handle_input_previous(file, input) ==
    IF input = "" THEN Handled(None)
    ELSE IF str_parse_u32(input) >= 0
    THEN LET r == read_db(file)
         IN  IF r.res # "Ok" THEN PageError
             ELSE IF contains_key(file.db.epics, str_parse_u32(input))
             THEN Handled(Action("NavigateToEpicDetail", str_parse_u32(input), 0))
             ELSE Handled(None)
    ELSE CASE input = "q" -> Handled(Action("Exit", 0, 0))
           [] input = "c" -> Handled(Action("CreateEpic", 0, 0))
           [] input = "p" -> Handled(Action("NavigateToPreviousPage", 0, 0))
           [] OTHER -> Handled(None)

\* Variant: every number typed opens an epic page.
HomePage_handle_input_any_number(file, input) ==
    IF input = "" THEN Handled(None)
    ELSE IF str_parse_u32(input) >= 0
    THEN LET r == read_db(file)
         IN  IF r.res # "Ok" THEN PageError
             ELSE Handled(Action("NavigateToEpicDetail", str_parse_u32(input), 0))
    ELSE CASE input = "q" -> Handled(Action("Exit", 0, 0))
           [] input = "c" -> Handled(Action("CreateEpic", 0, 0))
           [] OTHER -> Handled(None)

\* HomePage::handle_input
HomePage_handle_input(file, input) ==
    IF input = "" THEN Handled(None)
    ELSE IF str_parse_u32(input) >= 0
    THEN LET r == read_db(file)
         IN  IF r.res # "Ok" THEN PageError
             ELSE IF contains_key(file.db.epics, str_parse_u32(input))
             THEN Handled(Action("NavigateToEpicDetail", str_parse_u32(input), 0))
             ELSE Handled(None)
    ELSE CASE input = "q" -> Handled(Action("Exit", 0, 0))
           [] input = "c" -> Handled(Action("CreateEpic", 0, 0))
           [] OTHER -> Handled(None)

\* Variant: only the stories listed in the page's epic can be opened.
EpicDetail_handle_input_own_stories(page, file, input) ==
    IF input = "" THEN Handled(None)
    ELSE IF str_parse_u32(input) >= 0
    THEN LET r == read_db(file)
         IN  IF r.res # "Ok" THEN PageError
             ELSE IF /\ contains_key(file.db.epics, page.epic_id)
                     /\ contains(file.db.epics[page.epic_id].stories,
                                 str_parse_u32(input))
             THEN Handled(Action("NavigateToStoryDetail", page.epic_id,
                                 str_parse_u32(input)))
             ELSE Handled(None)
    ELSE CASE input = "p" -> Handled(Action("NavigateToPreviousPage", 0, 0))
           [] input = "u" -> Handled(Action("UpdateEpicStatus", page.epic_id, 0))
           [] input = "d" -> Handled(Action("DeleteEpic", page.epic_id, 0))
           [] input = "c" -> Handled(Action("CreateStory", page.epic_id, 0))
           [] OTHER -> Handled(None)

\* EpicDetail::handle_input
EpicDetail_handle_input(page, file, input) ==
    IF input = "" THEN Handled(None)
    ELSE IF str_parse_u32(input) >= 0
    THEN LET r == read_db(file)
         IN  IF r.res # "Ok" THEN PageError
             ELSE IF contains_key(file.db.stories, str_parse_u32(input))
             THEN Handled(Action("NavigateToStoryDetail", page.epic_id,
                                 str_parse_u32(input)))
             ELSE Handled(None)
    ELSE CASE input = "p" -> Handled(Action("NavigateToPreviousPage", 0, 0))
           [] input = "u" -> Handled(Action("UpdateEpicStatus", page.epic_id, 0))
           [] input = "d" -> Handled(Action("DeleteEpic", page.epic_id, 0))
           [] input = "c" -> Handled(Action("CreateStory", page.epic_id, 0))
           [] OTHER -> Handled(None)

\* Variant: [d] names the story where the epic belongs and the other way round.
StoryDetail_handle_input_swapped(page, input) ==
    IF input = "" THEN Handled(None)
    ELSE IF str_parse_u32(input) >= 0 THEN Handled(None)
    ELSE CASE input = "p" -> Handled(Action("NavigateToPreviousPage", 0, 0))
           [] input = "q" -> Handled(Action("Exit", 0, 0))
           [] input = "u" -> Handled(Action("UpdateStoryStatus", 0, page.story_id))
           [] input = "d" -> Handled(Action("DeleteStory", page.story_id,
                                            page.epic_id))
           [] OTHER -> Handled(None)

\* StoryDetail::handle_input
StoryDetail_handle_input(page, input) ==
    IF input = "" THEN Handled(None)
    ELSE IF str_parse_u32(input) >= 0 THEN Handled(None)
    ELSE CASE input = "p" -> Handled(Action("NavigateToPreviousPage", 0, 0))
           [] input = "q" -> Handled(Action("Exit", 0, 0))
           [] input = "u" -> Handled(Action("UpdateStoryStatus", 0, page.story_id))
           [] input = "d" -> Handled(Action("DeleteStory", page.epic_id,
                                            page.story_id))
           [] OTHER -> Handled(None)

\* Page::handle_input, dispatched on the page.
Page_handle_input(page, file, input) ==
    CASE page.kind = "Home" -> HomePage_handle_input(file, input)
      [] page.kind = "EpicDetail" -> EpicDetail_handle_input(page, file, input)
      [] OTHER -> StoryDetail_handle_input(page, input)

\* Variant: a story's page also needs its epic.
Page_draw_page_needs_epic(page, file) ==
    IF read_db(file).res # "Ok" THEN "DrawError"
    ELSE CASE page.kind = "Home" -> "Ok"
           [] page.kind = "EpicDetail" ->
                IF contains_key(file.db.epics, page.epic_id) THEN "Ok"
                ELSE "DrawError"
           [] OTHER ->
                IF /\ contains_key(file.db.stories, page.story_id)
                   /\ contains_key(file.db.epics, page.epic_id) THEN "Ok"
                ELSE "DrawError"

\* Page::draw_page, dispatched on the page: "Ok" or "DrawError".  HomePage
\* needs the store to be readable, EpicDetail its epic, StoryDetail its story.
Page_draw_page(page, file) ==
    IF read_db(file).res # "Ok" THEN "DrawError"
    ELSE CASE page.kind = "Home" -> "Ok"
           [] page.kind = "EpicDetail" ->
                IF contains_key(file.db.epics, page.epic_id) THEN "Ok"
                ELSE "DrawError"
           [] OTHER ->
                IF contains_key(file.db.stories, page.story_id) THEN "Ok"
                ELSE "DrawError"

\* ------------------------------------------------------------------ ui/prompts.rs
\* The lines typed at a confirmation prompt and at the status prompt.
ConfirmLines == {"", "y", "n", "x"}
StatusLines == {"1", "4", "x"}

\* delete_epic_prompt, delete_story_prompt: the line typed, trimmed.
delete_epic_prompt(line) == line = "" \/ line = "Y" \/ line = "y"
delete_story_prompt(line) == line = "" \/ line = "Y" \/ line = "y"

\* update_status_prompt: Some(status), or "none" for None.
update_status_prompt(line) ==
    CASE str_parse_u32(line) = 1 -> "Open"
      [] str_parse_u32(line) = 2 -> "InProgress"
      [] str_parse_u32(line) = 3 -> "Resolved"
      [] str_parse_u32(line) = 4 -> "Closed"
      [] OTHER -> "none"

\* ------------------------------------------------------------------ Navigator
\* Navigator::handle_action returns [res, cause, pages, file, call, writes]:
\* "Ok" or "NavigationFailure", the store's result kind behind it, the stack
\* and the file afterwards, the store method it called ("none" for none) and
\* how many times write_db was called.

\* The top page is popped.
pop(stack) ==
    IF stack = <<>> THEN <<>> ELSE SubSeq(stack, 1, Len(stack) - 1)

\* An action that only moves through the stack.
Navigated(stack, file) ==
    [res |-> "Ok", cause |-> "Ok", pages |-> stack, file |-> file,
     call |-> "none", writes |-> 0]

\* Variant: Exit leaves the home page on the stack.
Exited_to_home(stack, file) == Navigated(<<Home>>, file)

\* Exit: the stack is cleared.
Exited(stack, file) == Navigated(<<>>, file)

\* A store call whose action leaves the stack as it is: a failure of the
\* store comes back wrapped in a NavigationFailure.
Called(stack, op, out) ==
    [res |-> IF out.res = "Ok" THEN "Ok" ELSE "NavigationFailure",
     cause |-> out.res, pages |-> stack, file |-> out.file,
     call |-> op, writes |-> out.writes]

\* Variant: the page is popped before the store is asked to delete.
Deleted_pop_first(stack, file, confirmed, op, out) ==
    IF confirmed THEN [Called(stack, op, out) EXCEPT !.pages = pop(stack)]
    ELSE Navigated(stack, file)

\* Variant: the page of the deleted item stays on the stack.
Deleted_stays(stack, file, confirmed, op, out) ==
    IF ~confirmed THEN Navigated(stack, file) ELSE Called(stack, op, out)

\* Variant: the delete is carried out whatever the prompt returned.
Deleted_unasked(stack, file, confirmed, op, out) ==
    IF out.res = "Ok" THEN [Called(stack, op, out) EXCEPT !.pages = pop(stack)]
    ELSE Called(stack, op, out)

\* A delete action: nothing happens unless confirmed; the page is popped once
\* the store has deleted.
Deleted(stack, file, confirmed, op, out) ==
    IF ~confirmed THEN Navigated(stack, file)
    ELSE IF out.res = "Ok"
    THEN [Called(stack, op, out) EXCEPT !.pages = pop(stack)]
    ELSE Called(stack, op, out)

\* Variant: the store is called whatever the prompt returned.
Updated_uncancelled(stack, file, status, op, out) == Called(stack, op, out)

\* An update action: nothing happens when the prompt returned None.
Updated(stack, file, status, op, out) ==
    IF status = "none" THEN Navigated(stack, file) ELSE Called(stack, op, out)

\* Navigator::handle_action.  reply is what the prompt the action calls is
\* given (a name and description, or a line); w is the outcome of the write.
Navigator_handle_action(stack, file, action, reply, w) ==
    CASE action.kind = "NavigateToEpicDetail" ->
           Navigated(Append(stack, EpicDetail(action.epic_id)), file)
      [] action.kind = "NavigateToStoryDetail" ->
           Navigated(Append(stack, StoryDetail(action.epic_id, action.story_id)),
                     file)
      [] action.kind = "NavigateToPreviousPage" -> Navigated(pop(stack), file)
      [] action.kind = "Exit" -> Exited(stack, file)
      [] action.kind = "CreateEpic" ->
           Called(stack, "create_epic",
                  create_epic(file, Epic_new(reply.name, reply.description), w))
      [] action.kind = "CreateStory" ->
           Called(stack, "create_story",
                  create_story(file, Story_new(reply.name, reply.description),
                               action.epic_id, w))
      [] action.kind = "DeleteEpic" ->
           Deleted(stack, file, delete_epic_prompt(reply), "delete_epic",
                   delete_epic(file, action.epic_id, w))
      [] action.kind = "DeleteStory" ->
           Deleted(stack, file, delete_story_prompt(reply), "delete_story",
                   delete_story(file, action.epic_id, action.story_id, w))
      [] action.kind = "UpdateEpicStatus" ->
           LET status == update_status_prompt(reply)
           IN  Updated(stack, file, status, "update_epic_status",
                       update_epic_status(file, action.epic_id, status, w))
      [] OTHER ->
           LET status == update_status_prompt(reply)
           IN  Updated(stack, file, status, "update_story_status",
                       update_story_status(file, action.story_id, status, w))

\* What the prompt an action calls can be given.
Replies(action) ==
    CASE action.kind \in {"CreateEpic", "CreateStory"} -> Texts
      [] action.kind \in {"DeleteEpic", "DeleteStory"} -> ConfirmLines
      [] action.kind \in {"UpdateEpicStatus", "UpdateStoryStatus"} -> StatusLines
      [] OTHER -> {""}

\* ------------------------------------------------------------------ main.rs
\* The lines typed at a page, trimmed: nothing, a number, a key some page
\* offers, or something else.
SessionIds == 0..MaxSessionId
Inputs == {""} \cup {to_string[n] : n \in SessionIds}
             \cup {"q", "c", "p", "u", "d", "x"}

\* Navigator::get_current_page of a stack that is not empty.
get_current_page(stack) == stack[Len(stack)]

\* A create prompted for in a session stays within the bound.
SessionCanAllocate(action) ==
    action.kind \in {"CreateEpic", "CreateStory"} /\ disk.tag = "ok"
      => disk.db.last_item_id < MaxSessionId

Turn(step, action, call, res) ==
    [step |-> step, action |-> action, call |-> call, res |-> res]

\* Variant: a page that cannot be drawn is dropped from the stack.
Loop_draw_failed_pops ==
    /\ pages # <<>>
    /\ Page_draw_page(get_current_page(pages), disk) # "Ok"
    /\ nav' = Turn("draw_failed", "None", "none", "DrawError")
    /\ pages' = pop(pages)
    /\ UNCHANGED <<disk, last, returned, column>>

\* draw_page fails: the error is shown and the loop goes round.
Loop_draw_failed ==
    /\ pages # <<>>
    /\ Page_draw_page(get_current_page(pages), disk) # "Ok"
    /\ nav' = Turn("draw_failed", "None", "none", "DrawError")
    /\ UNCHANGED <<disk, last, returned, pages, column>>

\* The page is drawn and a line is read; handle_input gives no action (None,
\* or an error that is shown) and the loop goes round.
Loop_no_action ==
    /\ pages # <<>>
    /\ Page_draw_page(get_current_page(pages), disk) = "Ok"
    /\ \E input \in Inputs :
         LET r == Page_handle_input(get_current_page(pages), disk, input)
         IN  /\ r.action = None
             /\ nav' = IF r.res = "Ok" THEN Turn("no_action", "None", "none", "Ok")
                       ELSE Turn("input_failed", "None", "none", r.res)
    /\ UNCHANGED <<disk, last, returned, pages, column>>

\* The page is drawn, a line is read, handle_input gives an action and the
\* navigator handles it; an error is shown and the loop goes round.
Loop_handle_action ==
    /\ pages # <<>>
    /\ Page_draw_page(get_current_page(pages), disk) = "Ok"
    /\ \E input \in Inputs :
         LET r == Page_handle_input(get_current_page(pages), disk, input)
         IN  /\ r.action # None
             /\ SessionCanAllocate(r.action)
             /\ \E reply \in Replies(r.action) :
                  \E w \in Outcomes(Navigator_handle_action(
                                      pages, disk, r.action, reply, "create_failed")) :
                    LET h == Navigator_handle_action(pages, disk, r.action, reply, w)
                    IN  /\ pages' = h.pages
                        /\ disk' = h.file
                        /\ nav' = Turn("handled", r.action.kind, h.call, h.cause)
    /\ UNCHANGED <<last, returned, column>>

NextUI ==
    \/ Loop_draw_failed
    \/ Loop_no_action
    \/ Loop_handle_action

SpecUI == Init /\ [][NextUI]_vars

\* ------------------------------------------------------------------ session vocabulary
\* The actions over the ids typed in a session.
SessionActions ==
    {Action(k, 0, 0) : k \in {"NavigateToPreviousPage", "Exit", "CreateEpic"}}
    \cup {Action(k, e, 0) : k \in {"NavigateToEpicDetail", "UpdateEpicStatus",
                                   "DeleteEpic", "CreateStory"},
                            e \in SessionIds}
    \cup {Action("UpdateStoryStatus", 0, s) : s \in SessionIds}
    \cup {Action(k, e, s) : k \in {"NavigateToStoryDetail", "DeleteStory"},
                            e \in SessionIds, s \in SessionIds}

\* The stack without its top page.
Below(stack) == SubSeq(stack, 1, Len(stack) - 1)

StoreErrors == {"Read", "Write", "NoEpicWithID", "NoStoryWithID"}

\* ------------------------------------------------------------------ C17
\* C17: from every stack of a session ([Home] at the start), handling
\* NavigateToEpicDetail{e} gives the stack with EpicDetail{e} on top,
\* NavigateToStoryDetail{e, s} the stack with StoryDetail{e, s} on top, and
\* NavigateToPreviousPage the stack without its top page, so a navigate
\* followed by NavigateToPreviousPage gives the stack back; Exit gives the
\* empty stack.  None of them fails or touches the file.
C17_StackTransitions ==
    LET go(stack, a) == Navigator_handle_action(stack, disk, a, "", "ok")
        moved(h) == h.res = "Ok" /\ h.file = disk /\ h.call = "none"
        previous == Action("NavigateToPreviousPage", 0, 0)
    IN  /\ \A e \in SessionIds :
             LET h == go(pages, Action("NavigateToEpicDetail", e, 0))
             IN  /\ moved(h)
                 /\ h.pages = pages \o <<EpicDetail(e)>>
                 /\ go(h.pages, previous).pages = pages
        /\ \A e \in SessionIds, s \in SessionIds :
             LET h == go(pages, Action("NavigateToStoryDetail", e, s))
             IN  /\ moved(h)
                 /\ h.pages = pages \o <<StoryDetail(e, s)>>
                 /\ go(h.pages, previous).pages = pages
        /\ pages # <<>> =>
             /\ moved(go(pages, previous))
             /\ go(pages, previous).pages = Below(pages)
        /\ moved(go(pages, Action("Exit", 0, 0)))
        /\ go(pages, Action("Exit", 0, 0)).pages = <<>>

\* An epic page was opened from the home page and left with [p].
C17_Witness ==
    /\ nav.step = "handled"
    /\ nav.action = "NavigateToPreviousPage"
    /\ pages = <<Home>>
    /\ epics # <<>>

\* ------------------------------------------------------------------ C18
\* C18: in a session, a stack that is not empty has Home at the bottom; the
\* home page never gives NavigateToPreviousPage, DeleteEpic or DeleteStory;
\* whatever is typed at the stack [Home], the stack afterwards still has Home
\* at the bottom unless the action was Exit; and the stack is empty only
\* after Exit was handled.
C18_NoUnderflow ==
    /\ pages # <<>> => pages[1] = Home
    /\ \A input \in Inputs :
         HomePage_handle_input(disk, input).action.kind
           \notin {"NavigateToPreviousPage", "DeleteEpic", "DeleteStory"}
    /\ pages = <<Home>> =>
         \A input \in Inputs :
           LET r == Page_handle_input(get_current_page(pages), disk, input)
           IN  r.action # None =>
                 \A reply \in Replies(r.action), w \in WriteOutcomes :
                   LET h == Navigator_handle_action(pages, disk, r.action, reply, w)
                   IN  r.action.kind # "Exit" =>
                         h.pages # <<>> /\ h.pages[1] = Home
    /\ pages = <<>> => nav.step = "handled" /\ nav.action = "Exit"

\* The session was left with [q] after an epic was created.
C18_Witness ==
    /\ pages = <<>>
    /\ nav.action = "Exit"
    /\ Readable /\ epics # <<>>

\* ------------------------------------------------------------------ C19
\* The result of the store call an action leads to ("none" when it leads to
\* none): the create, delete or update of the transition table, with the
\* action's ids and what the prompt returned.
StoreResult(action, reply, w) ==
    CASE action.kind = "CreateEpic" ->
           create_epic(disk, Epic_new(reply.name, reply.description), w).res
      [] action.kind = "CreateStory" ->
           create_story(disk, Story_new(reply.name, reply.description),
                        action.epic_id, w).res
      [] action.kind = "DeleteEpic" /\ delete_epic_prompt(reply) ->
           delete_epic(disk, action.epic_id, w).res
      [] action.kind = "DeleteStory" /\ delete_story_prompt(reply) ->
           delete_story(disk, action.epic_id, action.story_id, w).res
      [] action.kind = "UpdateEpicStatus" /\ update_status_prompt(reply) # "none" ->
           update_epic_status(disk, action.epic_id, update_status_prompt(reply), w).res
      [] action.kind = "UpdateStoryStatus" /\ update_status_prompt(reply) # "none" ->
           update_story_status(disk, action.story_id, update_status_prompt(reply), w).res
      [] OTHER -> "none"

\* The write outcomes an action can meet: all of them when its store call
\* gets as far as write_db, no choice otherwise.
WriteCases(action, reply) ==
    IF StoreResult(action, reply, "create_failed") = "Write" THEN WriteOutcomes
    ELSE {"ok"}

\* C19: for every action, prompt reply and write outcome, when the store
\* call made by handle_action fails, handle_action returns a
\* NavigationFailure wrapping the store's error and the stack is the one
\* before the call (a confirmed DeleteEpic or DeleteStory included); it
\* returns a NavigationFailure in no other case.
C19_FailureKeepsStack ==
    \A action \in SessionActions :
      \A reply \in Replies(action) :
       \A w \in WriteCases(action, reply) :
        LET h == Navigator_handle_action(pages, disk, action, reply, w)
            store == StoreResult(action, reply, w)
        IN  /\ store \notin {"none", "Ok"} =>
                 /\ h.res = "NavigationFailure"
                 /\ h.cause = store
                 /\ h.cause \in StoreErrors
                 /\ h.pages = pages
            /\ h.res = "NavigationFailure" => store \in StoreErrors

\* On an epic's page the delete was confirmed and the write failed: the page
\* is still on top.
C19_Witness ==
    /\ nav.step = "handled"
    /\ nav.action = "DeleteEpic"
    /\ nav.call = "delete_epic"
    /\ nav.res = "Write"
    /\ Len(pages) = 2
    /\ pages[2].kind = "EpicDetail"

\* ------------------------------------------------------------------ C20
\* C20: for DeleteEpic{e} and DeleteStory{e, s}, every line typed at the
\* prompt and every write outcome: when the prompt returns true, the store's
\* delete is called with the action's ids (the file and the result are those
\* of that call) and, when it succeeded, the stack loses exactly its top
\* page; when the prompt returns false, no store call is made and neither
\* the file nor the stack changes.
C20_ConfirmedDelete ==
    LET declined(h) ==
          h.res = "Ok" /\ h.call = "none" /\ h.file = disk /\ h.pages = pages
        carried(h, op, out) ==
          /\ h.call = op /\ h.file = out.file /\ h.cause = out.res
          /\ out.res = "Ok" /\ pages # <<>> =>
               h.res = "Ok" /\ h.pages = Below(pages)
    IN  /\ \A e \in SessionIds, line \in ConfirmLines :
             LET action == Action("DeleteEpic", e, 0)
             IN  \A w \in WriteCases(action, line) :
                   LET h == Navigator_handle_action(pages, disk, action, line, w)
                   IN  IF delete_epic_prompt(line)
                       THEN carried(h, "delete_epic", delete_epic(disk, e, w))
                       ELSE declined(h)
        /\ \A e \in SessionIds, s \in SessionIds, line \in ConfirmLines :
             LET action == Action("DeleteStory", e, s)
             IN  \A w \in WriteCases(action, line) :
                   LET h == Navigator_handle_action(pages, disk, action, line, w)
                   IN  IF delete_story_prompt(line)
                       THEN carried(h, "delete_story", delete_story(disk, e, s, w))
                       ELSE declined(h)

\* On a story's page the delete was confirmed and carried out: the epic's
\* page is on top again.
C20_Witness ==
    /\ nav.step = "handled"
    /\ nav.action = "DeleteStory"
    /\ nav.call = "delete_story"
    /\ nav.res = "Ok"
    /\ Len(pages) = 2
    /\ pages[2].kind = "EpicDetail"
    /\ Readable /\ stories = <<>>

\* ------------------------------------------------------------------ C21
\* C21: for CreateEpic, CreateStory{e}, UpdateEpicStatus{e} and
\* UpdateStoryStatus{s}, every prompt reply and every write outcome, the
\* stack after handle_action is the stack before; and when the status prompt
\* returns None, the update actions make no store call, succeed and leave the
\* file as it was.
C21_StackUnchanged ==
    \A action \in {a \in SessionActions :
                     a.kind \in {"CreateEpic", "CreateStory",
                                 "UpdateEpicStatus", "UpdateStoryStatus"}} :
      \A reply \in Replies(action) :
        \A w \in WriteCases(action, reply) :
          LET h == Navigator_handle_action(pages, disk, action, reply, w)
          IN  /\ h.pages = pages
              /\ action.kind \in {"UpdateEpicStatus", "UpdateStoryStatus"}
                 /\ update_status_prompt(reply) = "none" =>
                   h.res = "Ok" /\ h.call = "none" /\ h.writes = 0 /\ h.file = disk

\* On an epic's page [u] was typed and the status prompt was cancelled.
C21_Witness ==
    /\ nav.step = "handled"
    /\ nav.action = "UpdateEpicStatus"
    /\ nav.call = "none"
    /\ nav.res = "Ok"
    /\ Len(pages) = 2
    /\ pages[2].kind = "EpicDetail"

\* ------------------------------------------------------------------ C22
\* A turn of the loop ended with an error shown: from draw_page, from
\* handle_input or from handle_action.
TurnFailed ==
    \/ nav.step \in {"draw_failed", "input_failed"}
    \/ nav.step = "handled" /\ nav.res # "Ok"

\* C22: the loop can take another turn exactly when the stack is not empty;
\* the stack is empty only after a turn that handled Exit; and a turn that
\* ended with an error from draw_page, handle_input or handle_action leaves
\* the stack as it was and not empty, so the same page comes next.
C22_LoopContinues ==
    /\ []((pages # <<>>) <=> ENABLED NextUI)
    /\ [](pages = <<>> => nav.step = "handled" /\ nav.action = "Exit")
    /\ [][TurnFailed' => pages' = pages /\ pages' # <<>>
                         /\ get_current_page(pages') = get_current_page(pages)]_vars

\* A write failed on an epic's page and left the file malformed: the page
\* cannot be drawn and stays on top.
C22_Witness ==
    /\ nav.step = "draw_failed"
    /\ disk = Malformed
    /\ Len(pages) = 2
    /\ pages[2].kind = "EpicDetail"

\* ------------------------------------------------------------------ page vocabulary
\* The lines a page is tried with: the ones typed in a session, numbers
\* written with a sign or a leading zero, and lines that are neither a number
\* nor a key of any page.
Lines == Inputs \cup {"+1", "01", "-1", "1x", "Q", "C", "P", "qq", " "}

\* The line is a number: str::parse::<u32> gives Ok.
IsNumber(line) == str_parse_u32(line) >= 0

Ok(action) == [res |-> "Ok", action |-> action]

\* ------------------------------------------------------------------ C23
\* C23: on the home page, whatever the readable store holds: the empty line
\* gives none; a number gives NavigateToEpicDetail with that number when it
\* is a key of epics and none otherwise; "q" gives Exit, "c" gives
\* CreateEpic; every other line gives none.  The only store call the handler
\* makes is a read, which writes nothing and leaves the file as it is.
C23_HomeInput ==
    Readable =>
      /\ \A line \in Lines :
           HomePage_handle_input(disk, line) =
             Ok(CASE line = "" -> None
                  [] IsNumber(line) ->
                       IF str_parse_u32(line) \in DOMAIN epics
                       THEN Action("NavigateToEpicDetail", str_parse_u32(line), 0)
                       ELSE None
                  [] line = "q" -> Action("Exit", 0, 0)
                  [] line = "c" -> Action("CreateEpic", 0, 0)
                  [] OTHER -> None)
      /\ read_db(disk).writes = 0 /\ read_db(disk).file = disk

\* The number of the second epic was typed on the home page.
C23_Witness ==
    /\ nav.step = "handled"
    /\ nav.action = "NavigateToEpicDetail"
    /\ pages = <<Home, EpicDetail(2)>>
    /\ Readable /\ DOMAIN epics = {1, 2}

\* ------------------------------------------------------------------ C24
\* C24: on the page of any epic id, whatever the readable store holds: the
\* empty line gives none; a number gives NavigateToStoryDetail with the
\* page's epic id and that number when the number is a key of stories
\* (listed in this epic or not) and none otherwise; "p", "u", "d", "c" give
\* NavigateToPreviousPage, UpdateEpicStatus, DeleteEpic, CreateStory with the
\* page's epic id; every other line, "q" included, gives none.
C24_EpicInput ==
    Readable =>
      \A e \in SessionIds, line \in Lines :
        EpicDetail_handle_input(EpicDetail(e), disk, line) =
          Ok(CASE line = "" -> None
               [] IsNumber(line) ->
                    IF str_parse_u32(line) \in DOMAIN stories
                    THEN Action("NavigateToStoryDetail", e, str_parse_u32(line))
                    ELSE None
               [] line = "p" -> Action("NavigateToPreviousPage", 0, 0)
               [] line = "u" -> Action("UpdateEpicStatus", e, 0)
               [] line = "d" -> Action("DeleteEpic", e, 0)
               [] line = "c" -> Action("CreateStory", e, 0)
               [] OTHER -> None)

\* On an epic's page the number of a story of another epic was typed: the
\* story's page is on top, with the first epic's id.
C24_Witness ==
    /\ nav.step = "handled"
    /\ nav.action = "NavigateToStoryDetail"
    /\ Len(pages) = 3
    /\ pages[3] = StoryDetail(pages[2].epic_id, pages[3].story_id)
    /\ Readable
    /\ pages[3].story_id \in DOMAIN stories
    /\ pages[3].story_id \notin Listed(epics[pages[3].epic_id])

\* ------------------------------------------------------------------ C25
\* C25: on the page of any story, whatever the file holds (readable or not):
\* the empty line and every number give none; "p" gives
\* NavigateToPreviousPage, "q" Exit, "u" UpdateStoryStatus with the page's
\* story id, "d" DeleteStory with the page's epic id and story id; every
\* other line gives none.
C25_StoryInput ==
    \A e \in SessionIds, s \in SessionIds, line \in Lines :
      /\ StoryDetail_handle_input(StoryDetail(e, s), line) =
           Ok(CASE line = "" -> None
                [] IsNumber(line) -> None
                [] line = "p" -> Action("NavigateToPreviousPage", 0, 0)
                [] line = "q" -> Action("Exit", 0, 0)
                [] line = "u" -> Action("UpdateStoryStatus", 0, s)
                [] line = "d" -> Action("DeleteStory", e, s)
                [] OTHER -> None)
      /\ Page_handle_input(StoryDetail(e, s), disk, line)
           = Page_handle_input(StoryDetail(e, s), Absent, line)

\* On a story's page [u] was typed and the story's status was updated.
C25_Witness ==
    /\ nav.step = "handled"
    /\ nav.action = "UpdateStoryStatus"
    /\ nav.call = "update_story_status"
    /\ nav.res = "Ok"
    /\ Len(pages) = 3
    /\ pages[3].kind = "StoryDetail"

\* ------------------------------------------------------------------ C26
\* C26: with a readable store, drawing EpicDetail{e} succeeds when e is a
\* key of epics and gives DrawError when it is not, and drawing
\* StoryDetail{e, s} succeeds when s is a key of stories (whatever e is) and
\* gives DrawError when it is not; with an unreadable file both give
\* DrawError.  The only store call is a read, which writes nothing and leaves
\* the file as it is.
C26_DrawMissing ==
    /\ \A e \in SessionIds, s \in SessionIds :
         /\ Page_draw_page(EpicDetail(e), disk) =
              IF Readable /\ e \in DOMAIN epics THEN "Ok" ELSE "DrawError"
         /\ Page_draw_page(StoryDetail(e, s), disk) =
              IF Readable /\ s \in DOMAIN stories THEN "Ok" ELSE "DrawError"
    /\ read_db(disk).writes = 0 /\ read_db(disk).file = disk

\* An epic was deleted from its page: that page could not be drawn any more,
\* the page of the epic that is left and the page of its story still can.
C26_Witness ==
    /\ nav.step = "handled"
    /\ nav.action = "DeleteEpic"
    /\ nav.res = "Ok"
    /\ Readable
    /\ \E gone \in SessionIds \ DOMAIN epics, e \in DOMAIN epics, s \in DOMAIN stories :
         /\ gone \in 1..last_item_id
         /\ Page_draw_page(EpicDetail(gone), disk) = "DrawError"
         /\ Page_draw_page(StoryDetail(gone, gone), disk) = "DrawError"
         /\ Page_draw_page(EpicDetail(e), disk) = "Ok"
         /\ Page_draw_page(StoryDetail(e, s), disk) = "Ok"

\* ------------------------------------------------------------------ C27
\* C27: in a session, whenever the store is readable, every StoryDetail{e, s}
\* on the stack has s listed in epics[e].stories, and no turn that handled
\* DeleteStory ended with NoStoryWithID.
C27_OwningEpic ==
    /\ Readable =>
         \A i \in 1..Len(pages) :
           pages[i].kind = "StoryDetail" =>
             /\ pages[i].epic_id \in DOMAIN epics
             /\ pages[i].story_id \in Listed(epics[pages[i].epic_id])
    /\ ~(nav.step = "handled" /\ nav.action = "DeleteStory"
         /\ nav.res = "NoStoryWithID")

\* ------------------------------------------------------------------ C28
\* C28: starting from the empty state, after any sequence of calls, every
\* epic's stories list is strictly ascending (so without duplicates); the
\* binary_search of delete_story finds every id the list contains, at the
\* place where it is; and no delete_story panics, made now or made before.
C28_SortedStories ==
    /\ last.res # "Panic"
    /\ Readable =>
         /\ \A e \in DOMAIN epics :
              LET v == epics[e].stories
              IN  /\ \A i \in 1..(Len(v) - 1) : v[i] < v[i + 1]
                  /\ \A s \in IdArgs :
                       contains(v, s) =>
                         /\ binary_search(v, s).found
                         /\ v[binary_search(v, s).index + 1] = s
         /\ \A e \in IdArgs, s \in IdArgs :
              delete_story(disk, e, s, "ok").res # "Panic"

\* The middle one of an epic's three stories was deleted.
C28_Witness ==
    /\ Readable
    /\ Succeeded(last, "delete_story")
    /\ \E e \in DOMAIN epics :
         /\ Len(epics[e].stories) = 2
         /\ epics[e].stories[1] + 1 < epics[e].stories[2]

\* ------------------------------------------------------------------ C30
\* The outcomes of every mutating call that can be made now, when the write
\* (if the call gets to it) succeeds.
WriteOkOuts ==
    {create_epic(disk, epic, "ok") : epic \in EpicArgs}
    \cup {create_story(disk, story, e, "ok") : story \in StoryArgs, e \in IdArgs}
    \cup {delete_epic(disk, e, "ok") : e \in IdArgs}
    \cup {delete_story(disk, e, s, "ok") : e \in IdArgs, s \in IdArgs}
    \cup {update_epic_status(disk, e, st, "ok") : e \in IdArgs, st \in StatusArgs}
    \cup {update_story_status(disk, s, st, "ok") : s \in IdArgs, st \in StatusArgs}

\* C30: when the file cannot be read, every mutating call returns Read,
\* calls write_db zero times, returns no id and leaves the file as it is.
\* When it can, a call that returns Ok called write_db exactly once, with a
\* whole DBState, and the file holds exactly that state afterwards; a call
\* that returns an error other than Write did not call write_db; for
\* create_epic the state written is the state read with the new epic added
\* and last_item_id set to the new id.  read_db never calls write_db.
C30_ReadThenWriteOnce ==
    /\ read_db(disk).writes = 0 /\ read_db(disk).file = disk
    /\ ~Readable =>
         \A out \in CreateOuts \cup OtherOuts :
           out.res = "Read" /\ out.writes = 0 /\ out.id = 0 /\ out.file = disk
    /\ Readable =>
         /\ \A out \in WriteOkOuts :
              /\ out.res \in {"Ok", "NoEpicWithID", "NoStoryWithID"}
              /\ out.res = "Ok" =>
                   /\ out.writes = 1
                   /\ DOMAIN out.written = {"last_item_id", "epics", "stories"}
                   /\ Database_read_db(out.file) = [ok |-> TRUE, db |-> out.written]
              /\ out.res # "Ok" => out.writes = 0 /\ out.file = disk
         /\ \A epic \in EpicArgs :
              LET out == create_epic(disk, epic, "ok")
              IN  out.written =
                    [disk.db EXCEPT !.last_item_id = out.id,
                                    !.epics = HashMap_insert(@, out.id, epic)]

\* An epic with a story was deleted: one write.
C30_Witness ==
    /\ Readable
    /\ Succeeded(last, "delete_epic")
    /\ last.writes = 1
    /\ \E s \in returned : s \notin Keys /\ s + 1 \in returned /\ s + 1 \notin Keys

\* ------------------------------------------------------------------ C29
\* The stacks a session can have: [Home], [Home, EpicDetail] and
\* [Home, EpicDetail, StoryDetail] (and the emptied stack after Exit).
Shaped(stack) ==
    /\ Len(stack) <= 3
    /\ \A i \in 1..Len(stack) :
         stack[i].kind = CASE i = 1 -> "Home"
                           [] i = 2 -> "EpicDetail"
                           [] OTHER -> "StoryDetail"

\* C29: in a session started at [Home], the stack always has one of the
\* three shapes (or is empty after Exit), and while the store is readable
\* every EpicDetail on it names an existing epic, every StoryDetail an
\* existing story, and drawing the current page succeeds.
C29_NoStalePage ==
    /\ Shaped(pages)
    /\ Readable =>
         /\ \A i \in 1..Len(pages) :
              /\ pages[i].kind = "EpicDetail" =>
                   contains_key(epics, pages[i].epic_id)
              /\ pages[i].kind = "StoryDetail" =>
                   contains_key(stories, pages[i].story_id)
         /\ pages # <<>> => Page_draw_page(get_current_page(pages), disk) = "Ok"

\* A story was deleted from its page, the page is gone, the epic's page is
\* current.
C29_Witness ==
    /\ Readable
    /\ nav.step = "handled" /\ nav.action = "DeleteStory" /\ nav.res = "Ok"
    /\ Len(pages) = 2
    /\ get_current_page(pages).kind = "EpicDetail"
    /\ stories = <<>>

\* ------------------------------------------------------------------ column helper
\* The texts and widths get_column_string is called with.
ColumnTexts == UNION {[1..n -> Chars] : n \in 0..MaxLen}
Widths == 0..MaxWidth

\* A call of get_column_string is about to be made with some text and width.
InitColumn ==
    /\ disk = FileOf(EmptyState)
    /\ last = NoCall
    /\ returned = {}
    /\ pages = <<Home>>
    /\ nav = NoTurn
    /\ column \in {Asked(text, width) : text \in ColumnTexts, width \in Widths}

\* The call runs to its return or to its panic.
Column_get ==
    /\ column.step = "asked"
    /\ column' = [column EXCEPT !.step = "done",
                                !.out = get_column_string(column.text, column.width)]
    /\ UNCHANGED <<disk, last, returned, pages, nav>>

NextColumn == Column_get

SpecColumn == InitColumn /\ [][NextColumn]_vars

\* ------------------------------------------------------------------ C31
\* C31: get_column_string(text, width) never panics and returns a string of
\* exactly width characters: the text right-padded with spaces when its
\* length is <= width, otherwise the first width - 3 characters followed by
\* "..." (width dots when width <= 3).
C31_ColumnString ==
    column.step = "done" =>
      LET text == column.text
          width == column.width
      IN  /\ ~column.out.panic
          /\ Len(column.out.text) = width
          /\ column.out.text =
               IF Len(text) <= width THEN text \o Spaces(width - Len(text))
               ELSE IF width <= 3 THEN SubSeq(Dots, 1, width)
               ELSE SubSeq(text, 1, width - 3) \o Dots
====
